---- MODULE Spec2Model ----
(***************************************************************************)
(* The forecasting service's upload -> process-csv -> worker ->            *)
(* store-forecast -> query workflow: the FastAPI endpoints of              *)
(* src/forecaster/api/endpoints.py and the Celery task of                  *)
(* src/forecaster/api/tasks.py.                                            *)
(*                                                                         *)
(* A calendar date is a day ordinal (1 = 2023-12-01, 31 = 2023-12-31,      *)
(* 32 = 2024-01-01); its ISO text is the triple <<year, month, day>>.      *)
(* A row's quantity plays no part in any decision of the code and is left  *)
(* out: a row is its date.                                                 *)
(***************************************************************************)
EXTENDS Integers, Sequences, FiniteSets, TLC

\* ---------------------------------------------------------------- bounds
MaxJobs == 2
MaxRows == 2
MaxTrain == 2
NumDays == 2

\* ------------------------------------------------------------- constants
DefaultHorizon == 365

\* product ids with training data, and the ids a client may ask about
Products == {"A"}
QueryProducts == {"A", "B"}
Jobs == 1..MaxJobs
Days == {d \in 1..62 : d >= 31 /\ d < 31 + NumDays}
\* start_date: date = None, end_date: date = None: the missing date
NoDate == 0
\* the None that start_date_str / end_date_str carry for a missing date
NoneStr == <<>>
NoProduct == "-"
NoFile == [product |-> NoProduct, rows |-> {}]
OptDays == Days \cup {NoDate}
\* end_date may also lie before every training date
OptEndDays == OptDays \cup {30}

\* ------------------------------------------------------------ conversions
\* date.isoformat() and Timestamp.strftime("%Y-%m-%d")
isoformat(d) == IF d <= 31 THEN <<2023, 12, d>> ELSE <<2024, 1, d - 31>>

\* the parse of an ISO text: pandas' coercion of the str bound in the
\* comparison, pydantic's parse of ForecastRow.TANGGAL
fromisoformat(s) == IF s[2] = 12 THEN s[3] ELSE 31 + s[3]

\* start_date.isoformat() if start_date else None
OptIso(d) == IF d = NoDate THEN NoneStr ELSE isoformat(d)

Max(S) == CHOOSE m \in S : \A x \in S : x <= m

VARIABLES
    train,      \* Data Store: training dates per product
    forecast,   \* Data Store: ForecastResult rows, in insertion order
    staging,    \* the content of uploads/train.csv
    task,       \* per job: the queued message and the worker's locals
    backend,    \* per job: Celery's result backend entry (state, result)
    net,        \* per job: the store-forecast call in flight
    hist        \* per job: what has happened so far (history)

vars == <<train, forecast, staging, task, backend, net, hist>>

\* ------------------------------------------------------------------ state
\* A job's message (the task's arguments) is consumed when the worker takes
\* it; future_df (the rows the engine returned) is the worker's local while
\* the callback is in flight; slice remembers what the submitting request
\* wrote to the staging file (history).
Idle == [pc |-> "none", product |-> NoProduct, future_step |-> 0,
         start_date |-> NoneStr, end_date |-> NoneStr,
         slice |-> NoFile, future_df |-> <<>>]

Finished == [Idle EXCEPT !.pc = "done"]

NoCall == [kind |-> "none", status |-> 0, rows |-> <<>>, product |-> NoProduct,
           detail |-> ""]

NoHist == [engine |-> "-", horizon |-> 0, engineCalls |-> 0, postCalls |-> 0,
           batches |-> 0, writes |-> 0, callbackFailed |-> FALSE]

Pending == [state |-> "PENDING", kind |-> "none", value |-> ""]

Terminal == {"SUCCESS", "FAILURE"}

Init ==
    /\ train = [p \in Products |-> {}]
    /\ forecast = <<>>
    /\ staging = NoFile
    /\ task = [j \in Jobs |-> Idle]
    /\ backend = [j \in Jobs |-> Pending]
    /\ net = [j \in Jobs |-> NoCall]
    /\ hist = [j \in Jobs |-> NoHist]

\* ------------------------------------------------------------ /upload/
\* validate_and_append_to_db either appends the file's rows (200) or raises
\* ValueError (400, nothing appended)
\* variant: the uploaded rows also land in the forecast table
upload_train_csvIntoForecast(p, d) ==
    /\ Cardinality(train[p]) < MaxTrain
    /\ train' = [train EXCEPT ![p] = @ \cup {d}]
    /\ forecast' = IF Len(forecast) < MaxRows
                   THEN Append(forecast, [job |-> 1, product_id |-> p, TANGGAL |-> d])
                   ELSE forecast
    /\ UNCHANGED <<staging, task, backend, net, hist>>

upload_train_csv(p, d) ==
    /\ Cardinality(train[p]) < MaxTrain
    /\ \E valid \in BOOLEAN :
         train' = [train EXCEPT ![p] = IF valid THEN @ \cup {d} ELSE @]
    /\ UNCHANGED <<forecast, staging, task, backend, net, hist>>

\* --------------------------------------------------------- /process-csv/
\* df = get_data(p); df = df[df["TANGGAL"] <= pd.to_datetime(start_date)]
\* (a missing start_date compares as NaT: no row passes)
TrainSlice(p, s) == IF s = NoDate THEN {} ELSE {d \in train[p] : d <= s}

\* variant: the gap without the + 1
FutureStepNoPlusOne(rows, s, e) ==
    IF s # NoDate /\ e # NoDate THEN e - Max(rows) ELSE 0

\* (end_date - df["TANGGAL"].max().date()).days + 1 if start_date and end_date else 0
FutureStep(rows, s, e) ==
    IF s # NoDate /\ e # NoDate THEN (e - Max(rows)) + 1 ELSE 0

\* task.id: ids are handed out in order
NextJob == Cardinality({j \in Jobs : task[j].pc # "none"}) + 1

\* process_csv_task.apply_async(args=[...], countdown=5)
apply_async(j, p, rows, fs, s, e) ==
    task' = [task EXCEPT ![j] =
               [pc |-> "queued", product |-> p, future_step |-> fs,
                start_date |-> OptIso(s), end_date |-> OptIso(e),
                slice |-> [product |-> p, rows |-> rows],
                future_df |-> <<>>]]

\* variant: the job is enqueued before the slice is written to the file
process_csvEnqueueFirst(p, s, e) ==
    LET rows == TrainSlice(p, s)
        j == NextJob
    IN  /\ j \in Jobs
        /\ rows # {} \/ s = NoDate \/ e = NoDate
        /\ staging' = staging
        /\ apply_async(j, p, rows, FutureStep(rows, s, e), s, e)
        /\ UNCHANGED <<train, forecast, backend, net, hist>>

process_csv(p, s, e) ==
    LET rows == TrainSlice(p, s)
        j == NextJob
    IN  /\ j \in Jobs
        /\ staging' = [product |-> p, rows |-> rows]
        /\ IF s # NoDate /\ e # NoDate /\ rows = {}
           THEN \* max() of an empty column is NaT and NaT.date() is NaT:
                \* end_date - NaT raises TypeError (500, nothing submitted)
                task' = task
           ELSE apply_async(j, p, rows, FutureStep(rows, s, e), s, e)
        /\ UNCHANGED <<train, forecast, backend, net, hist>>

\* ------------------------------------------------------------ the worker
\* variant: the default the comment of line 17 announces
HorizonOne(fs) == IF fs <= 0 THEN 1 ELSE fs

\* if future_step <= 0: future_step = 365
Horizon(fs) == IF fs <= 0 THEN DefaultHorizon ELSE fs

\* variant: the end bound excluded
InRangeExclusiveEnd(d, s, e) == d >= fromisoformat(s) /\ d < fromisoformat(e)

\* (future_df["TANGGAL"] >= start_date) & (future_df["TANGGAL"] <= end_date)
InRange(d, s, e) == d >= fromisoformat(s) /\ d <= fromisoformat(e)

\* variant: the end bound applied whenever it is given
ClipEndOnly(df, s, e) ==
    IF e # NoneStr
    THEN SelectSeq(df, LAMBDA d : d <= fromisoformat(e))
    ELSE df

\* if start_date and end_date: future_df = future_df[...]
Clip(df, s, e) ==
    IF s # NoneStr /\ e # NoneStr
    THEN SelectSeq(df, LAMBDA d : InRange(d, s, e))
    ELSE df

\* future_df["TANGGAL"].dt.strftime("%Y-%m-%d"); to_dict(orient="records")
Records(df) == [i \in 1..Len(df) |-> isoformat(df[i])]

\* run_bma_pipeline(filepath, target_product_id, future_step=future_step):
\* the engine reads the file at filepath as it is when the worker runs (csv)
\* and returns nothing, raises, or returns rows.  Its internals lie outside
\* this repository: nothing is assumed on how the outcome depends on its
\* arguments.
EngineResults ==
    {[kind |-> "none", df |-> <<>>], [kind |-> "raise", df |-> <<>>]}
    \cup {[kind |-> "rows", df |-> q] : q \in UNION {[1..n -> Days] : n \in 0..MaxRows}}

run_bma_pipeline(csv, p, fs) ==
    {[future_step |-> fs, results |-> r] : r \in EngineResults}

\* variant: the check for a missing result left out
NotResultsNever(results) == FALSE

\* if not results
NotResults(results) == results.kind = "none"

\* variant: the task's result is not stored (ignore_result)
FinishIgnoreResult(j, st, kind, value, h) ==
    /\ backend' = backend
    /\ task' = [task EXCEPT ![j] = Finished]
    /\ hist' = [hist EXCEPT ![j] = h]

\* variant: the message is delivered again after the task ended
FinishRequeue(j, st, kind, value, h) ==
    /\ backend' = [backend EXCEPT ![j] = [state |-> st, kind |-> kind, value |-> value]]
    /\ task' = [task EXCEPT ![j] = [Idle EXCEPT !.pc = "queued"]]
    /\ hist' = [hist EXCEPT ![j] = [h EXCEPT !.writes = @ + 1]]

\* the task ends: Celery stores its state and result; the message and the
\* worker's locals are gone.  h is the job's history up to this step.
Finish(j, st, kind, value, h) ==
    /\ backend' = [backend EXCEPT ![j] = [state |-> st, kind |-> kind, value |-> value]]
    /\ task' = [task EXCEPT ![j] = Finished]
    /\ hist' = [hist EXCEPT ![j] = [h EXCEPT !.writes = @ + 1]]

\* return <value>: the task's state becomes SUCCESS, its result the value
TaskReturns(j, value, h) == Finish(j, "SUCCESS", "value", value, h)

\* variant: a task that raised is queued again (autoretry)
TaskRaisesRetry(j, text, h) ==
    /\ backend' = backend
    /\ task' = [task EXCEPT ![j] = [Idle EXCEPT !.pc = "queued"]]
    /\ hist' = [hist EXCEPT ![j] = h]

\* an exception leaves the task: its state becomes FAILURE, its result the
\* exception; nothing retries it
TaskRaises(j, text, h) == Finish(j, "FAILURE", "exception", text, h)

\* lines 16-40: the horizon, the engine, the clip, the payload, the POST
WorkerRun(j) ==
    /\ task[j].pc = "queued"
    /\ \E call \in run_bma_pipeline(staging, task[j].product,
                                     Horizon(task[j].future_step)) :
         LET t == task[j]
             results == call.results
             h == [hist[j] EXCEPT !.engine = results.kind,
                                  !.horizon = call.future_step,
                                  !.engineCalls = @ + 1]
         IN  IF results.kind = "raise"
             THEN TaskRaises(j, "EngineError", h) /\ net' = net
             ELSE IF NotResults(results)
             THEN TaskReturns(j, "status: failed", h) /\ net' = net
             ELSE LET future_df == Clip(results.df, t.start_date, t.end_date)
                      hp == [h EXCEPT !.postCalls = @ + 1]
                  IN  \/ \* requests.post: the request leaves
                         /\ task' = [task EXCEPT ![j] =
                                       [Idle EXCEPT !.pc = "posting",
                                                    !.future_df = results.df]]
                         /\ net' = [net EXCEPT ![j] =
                                      [NoCall EXCEPT !.kind = "request",
                                                     !.rows = Records(future_df),
                                                     !.product = t.product]]
                         /\ hist' = [hist EXCEPT ![j] = hp]
                         /\ backend' = backend
                      \/ \* requests.post raises ConnectionError
                         /\ TaskRaises(j, "ConnectionError",
                                       [hp EXCEPT !.callbackFailed = TRUE])
                         /\ net' = net
    /\ UNCHANGED <<train, forecast, staging>>

\* ------------------------------------------------ /internal/store-forecast
\* append_forecast_results(product_id, results): one batch insert; pydantic
\* has parsed each TANGGAL into a date
append_forecast_results(j, p, rows) ==
    forecast \o [i \in 1..Len(rows) |->
                   [job |-> j, product_id |-> p, TANGGAL |-> fromisoformat(rows[i])]]

\* variant: the handler answers ok whatever the append did
store_forecastSwallow(j) ==
    /\ net[j].kind = "request"
    /\ net' = [net EXCEPT ![j] =
                 [NoCall EXCEPT !.kind = "response", !.status = 200,
                                !.detail = "status: ok"]]
    /\ \/ /\ forecast' = append_forecast_results(j, net[j].product, net[j].rows)
          /\ hist' = [hist EXCEPT ![j].batches = @ + 1]
       \/ /\ forecast' = forecast
          /\ hist' = hist
    /\ UNCHANGED <<train, staging, task, backend>>

store_forecast(j) ==
    /\ net[j].kind = "request"
    /\ \/ \* return {"status": "ok"}
          /\ forecast' = append_forecast_results(j, net[j].product, net[j].rows)
          /\ net' = [net EXCEPT ![j] =
                       [NoCall EXCEPT !.kind = "response", !.status = 200,
                                      !.detail = "status: ok"]]
          /\ hist' = [hist EXCEPT ![j].batches = @ + 1]
       \/ \* except Exception as e: raise HTTPException(500, detail=str(e))
          /\ forecast' = forecast
          /\ net' = [net EXCEPT ![j] =
                       [NoCall EXCEPT !.kind = "response", !.status = 500,
                                      !.detail = "DatabaseError"]]
          /\ hist' = hist
    /\ UNCHANGED <<train, staging, task, backend>>

\* variant: the status of the response is not looked at
RaisesForStatusNever(status) == FALSE

\* resp.raise_for_status(): HTTPError for 4xx and 5xx
RaisesForStatus(status) == status >= 400 /\ status < 600

\* lines 40-42: the response (or none) comes back
WorkerReceive(j) ==
    /\ task[j].pc = "posting"
    /\ net[j].kind = "response"
    /\ net' = [net EXCEPT ![j] = NoCall]
    /\ \/ LET h == [hist[j] EXCEPT !.callbackFailed = ~(net[j].status \in 200..299)]
          IN  IF RaisesForStatus(net[j].status)
              THEN TaskRaises(j, "500 Server Error: Internal Server Error", h)
              ELSE \* return resp.json()
                   TaskReturns(j, net[j].detail, h)
       \/ \* the connection breaks before the response is read
          TaskRaises(j, "ConnectionError", [hist[j] EXCEPT !.callbackFailed = TRUE])
    /\ UNCHANGED <<train, forecast, staging>>

\* --------------------------------------------------- /task-status/{id}
\* str(task.info): the text of the stored exception
Str(r) == r.value

TaskStatus(j) ==
    LET r == backend[j]
    IN  IF r.state = "PENDING"
        THEN [state |-> r.state, field |-> "status", value |-> "Pending..."]
        ELSE IF r.state # "FAILURE"
        THEN [state |-> r.state, field |-> "result", value |-> r.value]
        ELSE [state |-> r.state, field |-> "error", value |-> Str(r)]

\* variant: the handler forgets the result it has read (task.forget())
get_task_statusForget(j) ==
    /\ backend[j].state \in Terminal
    /\ backend' = [backend EXCEPT ![j] = Pending]
    /\ UNCHANGED <<train, forecast, staging, task, net, hist>>

\* the handler reads the backend and answers TaskStatus(j)
get_task_status(j) == UNCHANGED vars

\* ------------------------------------------------------ query endpoints
\* except Exception as e: raise HTTPException(status_code=500, detail=str(e))
\* (HTTPException is an Exception: a 404 raised inside the try is caught too)
ExceptException(r) ==
    IF r.raised THEN [raised |-> TRUE, status |-> 500, n |-> 0] ELSE r

\* get_history_forecast(as_dict=True) filtered on product_id
History(p) == SelectSeq(forecast, LAMBDA r : r.product_id = p)

\* the response of GET /forecast/{product_id}; ok: the Data Store read succeeds
ForecastResponse(p, ok) ==
    ExceptException(
        IF ~ok THEN [raised |-> TRUE, status |-> 0, n |-> 0]
        ELSE IF History(p) = <<>> THEN [raised |-> TRUE, status |-> 404, n |-> 0]
        ELSE [raised |-> FALSE, status |-> 200, n |-> Len(History(p))])

get_forecast(p) == UNCHANGED vars

\* get_train_data_by_product_id(start_date, end_date, product_id)
TrainData(p, s, e) ==
    IF p \in Products THEN {d \in train[p] : s <= d /\ d <= e} ELSE {}

\* the response of GET /train-data/{product_id}
TrainDataResponse(p, s, e, ok) ==
    ExceptException(
        IF ~ok THEN [raised |-> TRUE, status |-> 0, n |-> 0]
        ELSE IF Cardinality(TrainData(p, s, e)) = 0
        THEN [raised |-> TRUE, status |-> 404, n |-> 0]
        ELSE [raised |-> FALSE, status |-> 200, n |-> Cardinality(TrainData(p, s, e))])

get_train_data(p, s, e) == UNCHANGED vars

\* the remaining endpoints read the Data Store or the output directory and
\* answer: GET /forecast-history/, /forecast-history/{id}, /all-train-data,
\* /download/{filename}
get_forecast_history == UNCHANGED vars

get_forecast_by_id == UNCHANGED vars

get_all_train_data == UNCHANGED vars

download_file == UNCHANGED vars

\* ---------------------------------------------------------- the system
Next ==
    \/ \E p \in Products, d \in Days : upload_train_csv(p, d)
    \/ \E p \in Products, s \in OptDays, e \in OptEndDays : process_csv(p, s, e)
    \/ \E j \in Jobs : WorkerRun(j)
    \/ \E j \in Jobs : store_forecast(j)
    \/ \E j \in Jobs : WorkerReceive(j)
    \/ \E j \in Jobs : get_task_status(j)
    \/ \E p \in QueryProducts : get_forecast(p)
    \/ \E p \in QueryProducts, s \in Days, e \in Days : get_train_data(p, s, e)
    \/ get_forecast_history
    \/ get_forecast_by_id
    \/ get_all_train_data
    \/ download_file

Spec == Init /\ [][Next]_vars

\* the worker pool and the API server keep running: a queued task is taken,
\* a request is handled, a pending response or connection error is seen
Fairness ==
    \A j \in Jobs :
        /\ WF_vars(WorkerRun(j))
        /\ WF_vars(store_forecast(j))
        /\ WF_vars(WorkerReceive(j))

FairSpec == Spec /\ Fairness

\* ================================================================ claims
HasBothDates(t) == t.start_date # NoneStr /\ t.end_date # NoneStr

\* C1 (as claimed): a job whose engine call returned no result ends FAILURE,
\* and its status is never reported as SUCCESS.
C1_NoResultEndsFailure ==
    \A j \in Jobs :
        (task[j].pc = "done" /\ hist[j].engine = "none")
            => (backend[j].state = "FAILURE" /\ TaskStatus(j).state # "SUCCESS")

\* C2: once a job's store-forecast call has failed (non-2xx response or
\* connection error), the job is FAILURE and its status response carries
\* state FAILURE with an 'error' field holding the failure's non-empty text.
C2_CallbackFailureReported ==
    \A j \in Jobs :
        hist[j].callbackFailed
            => /\ hist[j].engine = "rows"
               /\ backend[j].state = "FAILURE"
               /\ TaskStatus(j).state = "FAILURE"
               /\ TaskStatus(j).field = "error"
               /\ TaskStatus(j).value
                    \in {"ConnectionError", "500 Server Error: Internal Server Error"}

C2_Witness ==
    \E j \in Jobs :
        /\ hist[j].callbackFailed
        /\ TaskStatus(j).value = "500 Server Error: Internal Server Error"

\* C3 (as claimed): every ForecastResult row belongs to a job that has
\* completed: its job is SUCCESS, not PENDING/RUNNING and not FAILURE.
C3_RowsOnlyOfCompletedJobs ==
    \A i \in 1..Len(forecast) : backend[forecast[i].job].state = "SUCCESS"

\* C3 (amended): rows exist only for a job whose engine call produced a
\* result and whose callback has been handled, in one batch; a job whose
\* callback was never handled (not started, queued, request still in flight,
\* no engine result, engine raised) has no row; and a job that returned the
\* callback's {status: ok} has had its batch appended.
C3_RowsOnlyAfterCallback ==
    /\ \A i \in 1..Len(forecast) : hist[forecast[i].job].batches = 1
    /\ \A j \in Jobs :
         /\ hist[j].batches > 0
              => /\ hist[j].engine = "rows"
                 /\ task[j].pc \in {"posting", "done"}
                 /\ net[j].kind # "request"
         /\ (backend[j].state = "SUCCESS" /\ backend[j].value = "status: ok")
              => hist[j].batches = 1

C3_Witness ==
    \E i \in 1..Len(forecast) :
        /\ backend[forecast[i].job].state = "FAILURE"
        /\ \E k \in 1..Len(forecast) : backend[forecast[k].job].state = "SUCCESS"

\* C4 (as claimed): a query whose Data Store read succeeds with zero matching
\* rows is answered 404, for GET /forecast/{product_id} and for
\* GET /train-data/{product_id}.
C4_EmptyQueryIs404 ==
    \A p \in QueryProducts :
        /\ History(p) = <<>> => ForecastResponse(p, TRUE).status = 404
        /\ \A s \in Days, e \in Days :
             TrainData(p, s, e) = {} => TrainDataResponse(p, s, e, TRUE).status = 404

\* C5 (as claimed): when a job's worker loads the staging file, the file
\* holds the slice written by the request that submitted that job.
C5_WorkerLoadsOwnSlice ==
    [][\A j \in Jobs :
         (task[j].pc = "queued" /\ task'[j].pc # "queued")
             => staging = task[j].slice]_vars

\* the step of process_csv that submits job j
Submits(j) == task[j].pc = "none" /\ task'[j].pc = "queued"

\* C6 (as claimed): with both dates supplied, the future_step submitted is
\* end_date minus the last available training date of the product, plus one.
C6_HorizonFromLastTrainingDate ==
    [][\A j \in Jobs :
         (Submits(j) /\ HasBothDates(task'[j]))
             => task'[j].future_step
                  = (fromisoformat(task'[j].end_date)
                       - Max(train[task'[j].product])) + 1]_vars

\* C6 (amended): with both dates supplied and a training row at or before
\* start_date, future_step is end_date minus the last training date that is
\* at or before start_date (the last staged date), plus one.
C6_HorizonFromLastStagedDate ==
    [][\A j \in Jobs :
         LET t == task'[j]
             rows == train[t.product]
         IN  (Submits(j) /\ HasBothDates(t)
                /\ \E d \in rows : d <= fromisoformat(t.start_date))
               => \E last \in rows :
                    /\ last <= fromisoformat(t.start_date)
                    /\ \A d \in rows :
                         d <= fromisoformat(t.start_date) => d <= last
                    /\ t.future_step
                         = (fromisoformat(t.end_date) - last) + 1]_vars

C6_Witness ==
    \E j \in Jobs :
        /\ task[j].pc = "queued"
        /\ HasBothDates(task[j])
        /\ task[j].slice.rows # {}
        /\ \E d \in train[task[j].product] : d > fromisoformat(task[j].start_date)
        /\ task[j].future_step = 2

\* C7: the rows sent to the callback are the engine's rows whose date lies in
\* [start_date, end_date], both ends included, in their original order; with
\* a bound missing every row is sent.
C7_ClipInclusiveInOrder ==
    [][\A j \in Jobs :
         (task[j].pc = "queued" /\ net'[j].kind = "request")
           => LET t == task[j]
                  df == task'[j].future_df
                  sent == net'[j].rows
                  keep == IF HasBothDates(t)
                          THEN {i \in 1..Len(df) :
                                  /\ fromisoformat(t.start_date) <= df[i]
                                  /\ df[i] <= fromisoformat(t.end_date)}
                          ELSE 1..Len(df)
              IN  /\ Len(sent) = Cardinality(keep)
                  /\ \A i \in keep :
                       sent[Cardinality({k \in keep : k <= i})] = isoformat(df[i])]_vars

C7_Witness ==
    \E j \in Jobs :
        /\ net[j].kind = "request"
        /\ Len(task[j].future_df) = 2
        /\ net[j].rows = <<isoformat(task[j].future_df[2])>>

\* C8: under fair scheduling of the worker and the callback endpoint, every
\* submitted job reaches SUCCESS or FAILURE: its status does not stay PENDING.
C8_EveryJobTerminates ==
    \A j \in Jobs :
        (task[j].pc # "none")
            ~> (backend[j].state \in Terminal /\ TaskStatus(j).state # "PENDING")

C8_Witness ==
    \E j \in Jobs : hist[j].callbackFailed /\ TaskStatus(j).state = "FAILURE"

\* C9: a job's state is written once, by the worker, when the task ends; a
\* job that is SUCCESS or FAILURE keeps its state and its result or error in
\* every later step.
C9_TerminalAbsorbing ==
    /\ [](\A j \in Jobs :
            /\ hist[j].writes <= 1
            /\ (backend[j].state \in Terminal <=> hist[j].writes = 1)
            /\ (backend[j].state \in Terminal => task[j].pc = "done"))
    /\ [][\A j \in Jobs :
            backend[j].state \in Terminal => backend'[j] = backend[j]]_vars

C9_Witness ==
    \E j \in Jobs :
        /\ backend[j].state = "FAILURE"
        /\ \E k \in Jobs : backend[k].state = "SUCCESS" /\ hist[k].batches = 1

RowsOf(q, j) == {i \in 1..Len(q) : q[i].job = j}

\* C10: for every job the engine is invoked at most once and the callback is
\* called at most once; the one call carries every row the job stores: the
\* handler appends the request's rows as one block, and the job had no row
\* before.  Nothing is re-issued after an engine failure, a non-2xx response
\* or a connection error.
C10_SingleAttempt ==
    /\ [](\A j \in Jobs :
            /\ hist[j].engineCalls <= 1
            /\ hist[j].postCalls <= hist[j].engineCalls
            /\ hist[j].batches <= hist[j].postCalls
            /\ task[j].pc = "done" => (hist[j].engineCalls = 1 /\ net[j].kind = "none")
            /\ hist[j].batches = 0 => RowsOf(forecast, j) = {})
    /\ [][\A j \in Jobs :
            hist'[j].batches # hist[j].batches
              => /\ RowsOf(forecast, j) = {}
                 /\ RowsOf(forecast', j) = Len(forecast) + 1 .. Len(forecast')
                 /\ Len(forecast') = Len(forecast) + Len(net[j].rows)
                 /\ \A i \in 1..Len(net[j].rows) :
                      isoformat(forecast'[Len(forecast) + i].TANGGAL) = net[j].rows[i]]_vars

C10_Witness ==
    \E j \in Jobs :
        /\ task[j].pc = "done"
        /\ hist[j].callbackFailed
        /\ hist[j].postCalls = 1
        /\ \E k \in Jobs : task[k].pc = "done" /\ hist[k].engine = "raise"

\* the situation of job j: not yet started (or unknown to the worker), in
\* progress (the worker has taken it and has not finished), completed
Situation(j) ==
    IF task[j].pc \in {"none", "queued"} THEN "not started"
    ELSE IF task[j].pc = "posting" THEN "in progress"
    ELSE IF backend[j].state = "SUCCESS" THEN "payload"
    ELSE "error"

\* C11 (as claimed): jobs in different situations get status responses that
\* differ in state or in shape (the field next to 'state'); PENDING comes with
\* 'status', SUCCESS with 'result', FAILURE with 'error'.
C11_SituationsDistinguishable ==
    /\ \A j \in Jobs :
         /\ TaskStatus(j).state = "PENDING" => TaskStatus(j).field = "status"
         /\ TaskStatus(j).state = "SUCCESS" => TaskStatus(j).field = "result"
         /\ TaskStatus(j).state = "FAILURE" => TaskStatus(j).field = "error"
    /\ \A j, k \in Jobs :
         Situation(j) # Situation(k)
            => <<TaskStatus(j).state, TaskStatus(j).field>>
                 # <<TaskStatus(k).state, TaskStatus(k).field>>

\* C12: a job's stored state and result change only in a step of the worker
\* that ends the job's task; a step that leaves the worker's position in the
\* job alone (a status query, a submission, an upload, the callback handler,
\* any read) leaves the job's state and result, and every status response,
\* as they were.
C12_OnlyWorkerWritesState ==
    [][\A j \in Jobs :
         /\ backend'[j] # backend[j]
              => /\ task[j].pc \in {"queued", "posting"}
                 /\ task'[j].pc = "done"
                 /\ backend[j] = Pending
         /\ (\E k \in Jobs : get_task_status(k))
              => UNCHANGED <<backend, staging, forecast, train>>]_vars

C12_Witness ==
    \E j, k \in Jobs :
        /\ backend[j].state = "SUCCESS"
        /\ task[k].pc = "posting"
        /\ TaskStatus(k).state = "PENDING"

\* C13: when the handler answers a store-forecast request, either the append
\* returned (one batch more) and the answer is 200 {status: ok}, or the
\* append raised (no batch, no row added) and the answer is 500 with the
\* error's text as detail.
C13_PersistenceErrorIs500 ==
    [][\A j \in Jobs :
         (net[j].kind = "request" /\ net'[j].kind = "response")
           => \/ /\ hist'[j].batches = hist[j].batches + 1
                 /\ forecast' = append_forecast_results(j, net[j].product, net[j].rows)
                 /\ net'[j].status = 200
                 /\ net'[j].detail = "status: ok"
              \/ /\ hist'[j].batches = hist[j].batches
                 /\ forecast' = forecast
                 /\ net'[j].status = 500
                 /\ net'[j].detail = "DatabaseError"]_vars

C13_Witness ==
    \E j, k \in Jobs :
        /\ net[j].kind = "response" /\ net[j].status = 500 /\ hist[j].batches = 0
        /\ net[k].kind = "response" /\ net[k].status = 200 /\ Len(forecast) > 0

\* the step in which job j's worker calls the engine
CallsEngine(j) == hist'[j].engineCalls = hist[j].engineCalls + 1

\* the engine the claim assumes: one row per consecutive day, starting the
\* day after last, for n days
EngineDaily(last, n) == [i \in 1..n |-> last + i]

\* C14 (as claimed): when a job submitted with start_date <= end_date and a
\* training row at or before start_date reads its own staging file and the
\* engine answers one row per day from the day after the last staged date,
\* the rows sent for storing are one row for each day of [start_date,
\* end_date], and the last day of the horizon is end_date.
C14_WindowCoveredExactly ==
    [][\A j \in Jobs :
         LET t == task[j]
             s == fromisoformat(t.start_date)
             e == fromisoformat(t.end_date)
             last == Max(staging.rows)
         IN  (/\ CallsEngine(j) /\ net'[j].kind = "request"
              /\ HasBothDates(t) /\ s <= e
              /\ staging = t.slice /\ staging.rows # {}
              /\ task'[j].future_df = EngineDaily(last, hist'[j].horizon))
               => /\ net'[j].rows = [i \in 1..(e - s + 1) |-> isoformat(s + i - 1)]
                  /\ last + hist'[j].horizon = e]_vars

C16_WriteThenEnqueueThenRun ==
    /\ [](\A j \in Jobs :
            task[j].pc = "none" => (hist[j] = NoHist /\ backend[j] = Pending))
    /\ [][\A j \in Jobs :
            /\ Submits(j)
                 => /\ staging' = task'[j].slice
                    /\ backend'[j] = Pending
                    /\ hist'[j] = NoHist
            /\ CallsEngine(j)
                 => /\ task[j].pc = "queued"
                    /\ staging # NoFile]_vars

C16_Witness ==
    \E j, k \in Jobs :
        /\ hist[j].engineCalls = 1
        /\ task[k].pc = "queued" /\ staging = task[k].slice
        /\ backend[k] = Pending

\* C17: the ForecastResult rows change only in a step of the callback
\* handler that answers 200 to a job's store-forecast request, and then by
\* an append: upload, process-csv, the status and query endpoints and the
\* worker's own steps leave the rows as they are.
C17_OnlyCallbackAppends ==
    [][forecast' # forecast
         => \E j \in Jobs :
              /\ net[j].kind = "request"
              /\ net'[j].kind = "response" /\ net'[j].status = 200
              /\ task'[j] = task[j] /\ backend' = backend /\ train' = train
              /\ Len(forecast') > Len(forecast)
              /\ SubSeq(forecast', 1, Len(forecast)) = forecast]_vars

C17_Witness ==
    /\ Len(forecast) > 0
    /\ \E j, k \in Jobs :
         /\ RowsOf(forecast, j) # {} /\ task[j].pc = "done"
         /\ task[k].pc = "queued" /\ RowsOf(forecast, k) = {}
    /\ train["A"] # {}

\* C18: a job whose engine call returned no result has made no store-forecast
\* call and has no ForecastResult row, at any time; its task ends by
\* returning a value (not by an exception), in that very step.
C18_NoResultNoCallback ==
    \A j \in Jobs :
        hist[j].engine = "none"
          => /\ hist[j].postCalls = 0
             /\ hist[j].batches = 0
             /\ net[j].kind = "none"
             /\ RowsOf(forecast, j) = {}
             /\ task[j].pc = "done"
             /\ backend[j].kind = "value"
             /\ backend[j].value = "status: failed"

C18_Witness ==
    \E j, k \in Jobs :
        /\ hist[j].engine = "none" /\ task[j].pc = "done"
        /\ RowsOf(forecast, k) # {}

====
